---- MODULE Spec2Model ----
(***************************************************************************)
(* Event-stream parsing wrapper of libyaml-rust (src/src/yaml/parser.rs):  *)
(* YamlByteParser / YamlIoParser construction, YamlParser::parse,          *)
(* YamlEventStream::next_event, the streaming read callback                *)
(* handle_reader_cb, YamlBaseParser::get_error and Drop.                   *)
(* The YAML engine behind the ffi module is an external collaborator; it   *)
(* is represented by a small deterministic engine over a four-byte         *)
(* alphabet that follows the engine's documented protocol (read handler,   *)
(* one event per step, error fields).                                      *)
(***************************************************************************)
EXTENDS Integers, Sequences, FiniteSets, TLC

\* ------------------------------------------------------------------ bounds
MaxLen == 3
MaxCalls == 9
ExtraCapacity == 0

\* ------------------------------------------------- engine (ffi) constants
YAML_NO_ERROR == 0
YAML_MEMORY_ERROR == 1
YAML_READER_ERROR == 2
YAML_SCANNER_ERROR == 3
YAML_PARSER_ERROR == 4
YAML_COMPOSER_ERROR == 5
YAML_WRITER_ERROR == 6
YAML_EMITTER_ERROR == 7

YAML_NO_EVENT == 0
YAML_STREAM_START_EVENT == 1
YAML_STREAM_END_EVENT == 2
YAML_DOCUMENT_START_EVENT == 3
YAML_DOCUMENT_END_EVENT == 4
YAML_SCALAR_EVENT == 6
YAML_SEQUENCE_START_EVENT == 7
YAML_SEQUENCE_END_EVENT == 8

YAML_UTF8_ENCODING == 1
YAML_PLAIN_SCALAR_STYLE == 1
YAML_FLOW_SEQUENCE_STYLE == 2

\* bytes the engine looks ahead to detect a byte-order mark at stream start
BomLookahead == 2
RawCapacity == BomLookahead + ExtraCapacity

Bytes == {"[", "]", "s", "@"}
HeapAddrs == {1, 2}

Min(a, b) == IF a < b THEN a ELSE b

RECURSIVE SeqsUpTo(_)
SeqsUpTo(n) ==
    IF n = 0 THEN {<<>>}
    ELSE LET S == SeqsUpTo(n - 1)
         IN  S \cup {Append(s, b) : s \in {t \in S : Len(t) = n - 1}, b \in Bytes}

Take(s, n) == SubSeq(s, 1, n)
Drop(s, n) == SubSeq(s, n + 1, Len(s))

\* ------------------------------------------------------- C-level values
NullStr == [null |-> TRUE, text |-> ""]
CStr(t) == [null |-> FALSE, text |-> t]

yaml_mark_t(i) == [index |-> i, line |-> 0, column |-> i]

\* ffi::yaml_event_t::new(): zeroed event storage
yaml_event_t_new ==
    [type |-> YAML_NO_EVENT, encoding |-> 0, implicit |-> 0,
     value |-> <<>>, style |-> 0]

RawEvent(t) == [yaml_event_t_new EXCEPT !.type = t]

\* ffi::yaml_parser_t::new(): zeroed, not yet initialized engine handle
yaml_parser_t_new ==
    [initialized |-> FALSE, deleted |-> FALSE,
     error |-> YAML_NO_ERROR,
     problem |-> NullStr, problem_offset |-> 0,
     problem_mark |-> yaml_mark_t(0),
     context |-> NullStr, context_mark |-> yaml_mark_t(0),
     read_handler |-> "none", read_handler_data |-> 0,
     string |-> <<>>, current |-> 0,
     buf |-> <<>>, eof |-> FALSE, offset |-> 0,
     stream_start_produced |-> FALSE, stream_end_produced |-> FALSE,
     docOpen |-> FALSE, marks |-> <<>>]

\* --------------------------------------------------------------- engine
yaml_parser_initialize(pm, ok) ==
    IF ok THEN [yaml_parser_t_new EXCEPT !.initialized = TRUE]
    ELSE yaml_parser_t_new

yaml_parser_set_input_string(pm, input, size) ==
    [pm EXCEPT !.read_handler = "string", !.string = Take(input, size),
               !.current = 0]

yaml_parser_set_input(pm, data) ==
    [pm EXCEPT !.read_handler = "callback", !.read_handler_data = data]

yaml_parser_delete(pm) ==
    [yaml_parser_t_new EXCEPT !.deleted = TRUE]

\* the engine produces nothing more after stream end or after an error
EngineDone(pm) == pm.stream_end_produced \/ pm.error # YAML_NO_ERROR

EngineNeed(pm) == IF pm.stream_start_produced THEN 1 ELSE BomLookahead

NeedInput(pm) ==
    /\ ~pm.eof
    /\ pm.error = YAML_NO_ERROR
    /\ Len(pm.buf) < EngineNeed(pm)

ReadCapacity(pm) == RawCapacity - Len(pm.buf)

\* the engine's handling of a read handler's return
EngineAfterRead(pm, ret, size_read, data) ==
    IF ret = 0
    THEN [pm EXCEPT !.error = YAML_READER_ERROR,
                    !.problem = CStr("input error"),
                    !.problem_offset = pm.offset]
    ELSE [pm EXCEPT !.buf = pm.buf \o Take(data, size_read),
                    !.eof = (size_read = 0)]

\* the engine's own handler for whole-buffer input
yaml_string_read_handler(pm, size) ==
    LET n == Min(size, Len(pm.string) - pm.current)
    IN  [ret |-> 1, size_read |-> n,
         data |-> SubSeq(pm.string, pm.current + 1, pm.current + n)]

\* one invocation of the whole-buffer handler by the engine
StringRead(pm) ==
    LET r == yaml_string_read_handler(pm, ReadCapacity(pm))
        pm1 == [pm EXCEPT !.current = @ + r.size_read]
    IN  EngineAfterRead(pm1, r.ret, r.size_read, r.data)

EngineFail(pm, code, problem, pmark, context, cmark) ==
    [pm |-> [pm EXCEPT !.error = code, !.problem = problem,
                       !.problem_mark = pmark, !.context = context,
                       !.context_mark = cmark],
     ok |-> FALSE, event |-> yaml_event_t_new]

EngineOk(pm, ev) == [pm |-> pm, ok |-> TRUE, event |-> ev]

Consume(pm) == [pm EXCEPT !.buf = Tail(pm.buf), !.offset = pm.offset + 1]

\* one engine step (yaml_parser_parse), evaluated once enough input is
\* buffered; entryDone is EngineDone at the time the step was entered
yaml_parser_parse(pm, entryDone, memfail) ==
    IF entryDone
        THEN EngineOk(pm, yaml_event_t_new)
    ELSE IF pm.error # YAML_NO_ERROR
        THEN [pm |-> pm, ok |-> FALSE, event |-> yaml_event_t_new]
    ELSE IF memfail
        THEN [pm |-> [pm EXCEPT !.error = YAML_MEMORY_ERROR],
              ok |-> FALSE, event |-> yaml_event_t_new]
    ELSE IF ~pm.stream_start_produced
        THEN EngineOk([pm EXCEPT !.stream_start_produced = TRUE],
                      [RawEvent(YAML_STREAM_START_EVENT)
                          EXCEPT !.encoding = YAML_UTF8_ENCODING])
    ELSE IF pm.buf = <<>>
        THEN IF Len(pm.marks) > 0
             THEN EngineFail(pm, YAML_PARSER_ERROR,
                      CStr("did not find expected ',' or ']'"),
                      yaml_mark_t(pm.offset),
                      CStr("while parsing a flow sequence"),
                      yaml_mark_t(pm.marks[Len(pm.marks)]))
             ELSE IF pm.docOpen
             THEN EngineOk([pm EXCEPT !.docOpen = FALSE],
                      [RawEvent(YAML_DOCUMENT_END_EVENT) EXCEPT !.implicit = 1])
             ELSE EngineOk([pm EXCEPT !.stream_end_produced = TRUE],
                      RawEvent(YAML_STREAM_END_EVENT))
    ELSE IF Head(pm.buf) = "@"
        THEN EngineFail(pm, YAML_SCANNER_ERROR,
                 CStr("found character that cannot start any token"),
                 yaml_mark_t(pm.offset + 1),
                 CStr("while scanning for the next token"),
                 yaml_mark_t(pm.offset))
    ELSE IF ~pm.docOpen
        THEN EngineOk([pm EXCEPT !.docOpen = TRUE],
                 [RawEvent(YAML_DOCUMENT_START_EVENT) EXCEPT !.implicit = 1])
    ELSE IF Head(pm.buf) = "["
        THEN EngineOk([Consume(pm) EXCEPT !.marks = Append(pm.marks, pm.offset)],
                 [RawEvent(YAML_SEQUENCE_START_EVENT)
                     EXCEPT !.implicit = 1, !.style = YAML_FLOW_SEQUENCE_STYLE])
    ELSE IF Head(pm.buf) = "s"
        THEN EngineOk(Consume(pm),
                 [RawEvent(YAML_SCALAR_EVENT)
                     EXCEPT !.implicit = 1, !.value = <<"s">>,
                            !.style = YAML_PLAIN_SCALAR_STYLE])
    ELSE IF Len(pm.marks) > 0   \* the byte is "]"
        THEN EngineOk([Consume(pm) EXCEPT
                          !.marks = Take(pm.marks, Len(pm.marks) - 1)],
                 RawEvent(YAML_SEQUENCE_END_EVENT))
    ELSE EngineFail(pm, YAML_PARSER_ERROR,
             CStr("did not find expected node content"),
             yaml_mark_t(pm.offset), NullStr, yaml_mark_t(0))


\* ------------------------------------------------------ typed data model
\* Option<~str>; owned: the text is the value's own copy, not engine memory
None == [some |-> FALSE, val |-> "", owned |-> TRUE]
Some(t) == [some |-> TRUE, val |-> t, owned |-> TRUE]

\* variant: the text is left in engine memory and only referred to
CString_borrowed(p) ==
    IF p.null THEN None ELSE [some |-> TRUE, val |-> p.text, owned |-> FALSE]

\* CString::new(ptr, false).as_str().map(|s| s.into_owned())
CString_into_owned(p) == IF p.null THEN None ELSE Some(p.text)

\* YamlMark::conv
YamlMark_conv(mark) ==
    [index |-> mark.index, line |-> mark.line, column |-> mark.column]

EncodingName(e) ==
    CASE e = YAML_UTF8_ENCODING -> "YamlUtf8Encoding"
      [] OTHER -> "YamlAnyEncoding"

StyleName(t, st) ==
    CASE t = YAML_SCALAR_EVENT /\ st = YAML_PLAIN_SCALAR_STYLE
            -> "YamlPlainScalarStyle"
      [] t = YAML_SEQUENCE_START_EVENT /\ st = YAML_FLOW_SEQUENCE_STYLE
            -> "YamlFlowSequenceStyle"
      [] OTHER -> "none"

EventKindName(t) ==
    CASE t = YAML_NO_EVENT -> "YamlNoEvent"
      [] t = YAML_STREAM_START_EVENT -> "YamlStreamStartEvent"
      [] t = YAML_STREAM_END_EVENT -> "YamlStreamEndEvent"
      [] t = YAML_DOCUMENT_START_EVENT -> "YamlDocumentStartEvent"
      [] t = YAML_DOCUMENT_END_EVENT -> "YamlDocumentEndEvent"
      [] t = YAML_SCALAR_EVENT -> "YamlScalarEvent"
      [] t = YAML_SEQUENCE_START_EVENT -> "YamlSequenceStartEvent"
      [] t = YAML_SEQUENCE_END_EVENT -> "YamlSequenceEndEvent"
      [] OTHER -> "unknown"

\* YamlEvent::load: decode the raw event record into the typed event
YamlEvent_load(ev) ==
    [kind |-> EventKindName(ev.type),
     encoding |-> IF ev.type = YAML_STREAM_START_EVENT
                  THEN EncodingName(ev.encoding) ELSE "none",
     implicit |-> ev.implicit # 0,
     value |-> ev.value,
     style |-> StyleName(ev.type, ev.style)]

NoTypedEvent ==
    [kind |-> "none", encoding |-> "none", implicit |-> FALSE,
     value |-> <<>>, style |-> "none"]

NoYamlError ==
    [kind |-> "none", problem |-> None, byte_offset |-> 0,
     problem_mark |-> YamlMark_conv(yaml_mark_t(0)),
     context |-> None, context_mark |-> YamlMark_conv(yaml_mark_t(0))]

\* the match on parser_mem.error in get_error; "fail" is the fail! arm
ErrorKindOf(code) ==
    CASE code = YAML_NO_ERROR -> "YamlNoError"
      [] code = YAML_READER_ERROR -> "YamlReaderError"
      [] code = YAML_SCANNER_ERROR -> "YamlScannerError"
      [] code = YAML_PARSER_ERROR -> "YamlParserError"
      [] code = YAML_COMPOSER_ERROR -> "YamlComposerError"
      [] code = YAML_WRITER_ERROR -> "YamlWriterError"
      [] code = YAML_EMITTER_ERROR -> "YamlEmitterError"
      [] OTHER -> "fail"

\* YamlBaseParser::get_error
get_error(pm) ==
    LET kind == ErrorKindOf(pm.error)
    IN  IF kind = "fail"
        THEN [failed |-> TRUE, err |-> NoYamlError]
        ELSE [failed |-> FALSE,
              err |-> [kind |-> kind,
                       problem |-> CString_into_owned(pm.problem),
                       byte_offset |-> pm.problem_offset,
                       problem_mark |-> YamlMark_conv(pm.problem_mark),
                       context |-> CString_into_owned(pm.problem),
                       context_mark |-> YamlMark_conv(pm.context_mark)]]

\* variant: the event is decoded from fresh storage, not from the one filled
parse_event_loads_fresh(pm, entryDone, memfail) ==
    LET r == yaml_parser_parse(pm, entryDone, memfail)
    IN  [pm |-> r.pm, some |-> r.ok, raw |-> r.event,
         evt |-> IF r.ok THEN YamlEvent_load(yaml_event_t_new)
                 ELSE NoTypedEvent]

\* YamlParser::parse_event: one call of YamlBaseParser::parse, then load
parse_event(pm, entryDone, memfail) ==
    LET r == yaml_parser_parse(pm, entryDone, memfail)
    IN  [pm |-> r.pm, some |-> r.ok, raw |-> r.event,
         evt |-> IF r.ok THEN YamlEvent_load(r.event) ELSE NoTypedEvent]

\* variant: the error is extracted before the step's result is examined
next_event_extracts_always(pm, entryDone, memfail) ==
    LET p == parse_event(pm, entryDone, memfail)
        e == get_error(p.pm)
    IN  IF e.failed
        THEN [pm |-> p.pm, stepOk |-> p.some, raw |-> p.raw,
              tag |-> "fail", event |-> NoTypedEvent, error |-> NoYamlError,
              getError |-> 1]
        ELSE IF p.some
        THEN [pm |-> p.pm, stepOk |-> TRUE, raw |-> p.raw,
              tag |-> "Ok", event |-> p.evt, error |-> NoYamlError,
              getError |-> 1]
        ELSE [pm |-> p.pm, stepOk |-> FALSE, raw |-> p.raw,
              tag |-> "Err", event |-> NoTypedEvent, error |-> e.err,
              getError |-> 1]

\* variant: a successful step that produced NoEvent is reported as an error
next_event_noevent_is_err(pm, entryDone, memfail) ==
    LET p == parse_event(pm, entryDone, memfail)
        e == get_error(p.pm)
    IN  IF p.some /\ p.evt.kind # "YamlNoEvent"
        THEN [pm |-> p.pm, stepOk |-> TRUE, raw |-> p.raw,
              tag |-> "Ok", event |-> p.evt, error |-> NoYamlError,
              getError |-> 0]
        ELSE IF e.failed
        THEN [pm |-> p.pm, stepOk |-> p.some, raw |-> p.raw,
              tag |-> "fail", event |-> NoTypedEvent, error |-> NoYamlError,
              getError |-> 1]
        ELSE [pm |-> p.pm, stepOk |-> p.some, raw |-> p.raw,
              tag |-> "Err", event |-> NoTypedEvent, error |-> e.err,
              getError |-> 1]

\* variant: the handle is released as soon as a step has failed
next_event_releases_on_error(pm, entryDone, memfail) ==
    LET p == parse_event(pm, entryDone, memfail)
        e == get_error(p.pm)
    IN  IF p.some
        THEN [pm |-> p.pm, stepOk |-> TRUE, raw |-> p.raw,
              tag |-> "Ok", event |-> p.evt, error |-> NoYamlError,
              getError |-> 0]
        ELSE IF e.failed
        THEN [pm |-> p.pm, stepOk |-> FALSE, raw |-> p.raw,
              tag |-> "fail", event |-> NoTypedEvent, error |-> NoYamlError,
              getError |-> 1]
        ELSE [pm |-> yaml_parser_delete(p.pm), stepOk |-> FALSE, raw |-> p.raw,
              tag |-> "Err", event |-> NoTypedEvent, error |-> e.err,
              getError |-> 1]

\* YamlEventStream::next_event, from the point where the engine has its input
next_event(pm, entryDone, memfail) ==
    LET p == parse_event(pm, entryDone, memfail)
        e == get_error(p.pm)
    IN  IF p.some
        THEN [pm |-> p.pm, stepOk |-> TRUE, raw |-> p.raw,
              tag |-> "Ok", event |-> p.evt, error |-> NoYamlError,
              getError |-> 0]
        ELSE IF e.failed
        THEN [pm |-> p.pm, stepOk |-> FALSE, raw |-> p.raw,
              tag |-> "fail", event |-> NoTypedEvent, error |-> NoYamlError,
              getError |-> 1]
        ELSE [pm |-> p.pm, stepOk |-> FALSE, raw |-> p.raw,
              tag |-> "Err", event |-> NoTypedEvent, error |-> e.err,
              getError |-> 1]


\* -------------------------------------------------------- reader bridge
\* what reader.read(buf) can answer for a slice of len bytes when rem bytes
\* of data remain: Ok(n) with n <= len (possibly 0), Err(EndOfFile) at the
\* end of the data, or another I/O error
ReadOutcomes(len, rem) ==
    {[tag |-> "Ok", n |-> n] : n \in 0..Min(len, rem)}
      \cup (IF rem = 0 THEN {[tag |-> "EndOfFile", n |-> 0]} ELSE {})
      \cup {[tag |-> "OtherIoError", n |-> 0]}

\* variant: the slice is one byte longer than the engine's buffer
SliceLen_plus_one(size) == size + 1

\* CVec::new(buffer, size as uint): length of the slice offered to the reader
SliceLen(size) == size

\* variant: every read error is reported to the engine as end of input
handle_reader_cb_swallows_errors(outcome) ==
    CASE outcome.tag = "Ok" ->
            [ret |-> 1, wrote |-> TRUE, size_read |-> outcome.n]
      [] OTHER ->
            [ret |-> 1, wrote |-> TRUE, size_read |-> 0]

\* variant: the Ok arm forgets to store the byte count
handle_reader_cb_no_count(outcome) ==
    CASE outcome.tag \in {"Ok", "EndOfFile"} ->
            [ret |-> 1, wrote |-> TRUE, size_read |-> 0]
      [] OTHER ->
            [ret |-> 0, wrote |-> FALSE, size_read |-> 0]

\* variant: end of input is reported to the engine as a failed read
handle_reader_cb_eof_fails(outcome) ==
    CASE outcome.tag = "Ok" ->
            [ret |-> 1, wrote |-> TRUE, size_read |-> outcome.n]
      [] OTHER ->
            [ret |-> 0, wrote |-> FALSE, size_read |-> 0]

\* handle_reader_cb: the match on the reader's answer
handle_reader_cb(outcome) ==
    CASE outcome.tag = "Ok" ->
            [ret |-> 1, wrote |-> TRUE, size_read |-> outcome.n]
      [] outcome.tag = "EndOfFile" ->
            [ret |-> 1, wrote |-> TRUE, size_read |-> 0]
      [] OTHER ->
            [ret |-> 0, wrote |-> FALSE, size_read |-> 0]

\* variant: the callback steps the parser it was handed
cb_parser_after_restep(obj, n) ==
    [base_parser |-> yaml_parser_parse(obj.base_parser, FALSE, FALSE).pm,
     steps |-> 1, set_input |-> 0,
     reader |-> Drop(obj.reader, n)]

\* handle_reader_cb's use of the YamlIoParser behind `data`: it calls
\* parser.reader.read, which consumes n bytes, and nothing else
cb_parser_after(obj, n) ==
    [base_parser |-> obj.base_parser,
     steps |-> 0, set_input |-> 0,
     reader |-> Drop(obj.reader, n)]

NoCallback ==
    [invoked |-> FALSE, atCall |-> 0, nth |-> 0, handleUntouched |-> TRUE,
     stepsStarted |-> 0, setInputs |-> 0,
     data |-> 0, objAt |-> 0, alive |-> FALSE,
     capacity |-> 0, offered |-> 0, written |-> 0,
     outcome |-> [tag |-> "none", n |-> 0],
     ret |-> 0, wrote |-> FALSE, size_read |-> 0]

\* variant: the parser is stored by value, so a move relocates it
MoveBox_relocates(addr) == 3 - addr

\* moving an owned box (~P) moves the pointer, not the allocation
MoveBox(addr) == addr

\* ---------------------------------------------------------------- state
VARIABLES
    input,          \* the bytes to parse
    kind,           \* "byte" (YamlByteParser) or "io" (YamlIoParser)
    pc,             \* "new", "constructed", "stream", "parsing", "failed", "dropped"
    parser_mem,     \* YamlBaseParser.parser_mem, the engine handle
    reader,         \* YamlIoParser.reader: the bytes it has not delivered yet
    objAddr,        \* address of the boxed parser object (0: none)
    owner,          \* who holds the box: "none", "caller", "stream"
    entryDone,      \* EngineDone when the step in progress was entered
    cb,             \* the last invocation of handle_reader_cb
    results,        \* the results of the next_event calls so far
    engineEvents,   \* the raw events of the engine's successful steps
    life,           \* counts of engine lifecycle calls
    env             \* what the environment did: allocation/read faults

vars == <<input, kind, pc, parser_mem, reader, objAddr, owner, entryDone, cb,
          results, engineEvents, life, env>>

Init ==
    /\ input \in SeqsUpTo(MaxLen)
    /\ kind \in {"byte", "io"}
    /\ pc = "new"
    /\ parser_mem = yaml_parser_t_new
    /\ reader = <<>>
    /\ objAddr = 0
    /\ owner = "none"
    /\ entryDone = FALSE
    /\ cb = NoCallback
    /\ results = <<>>
    /\ engineEvents = <<>>
    /\ life = [initCalls |-> 0, initOk |-> FALSE, setInputCalls |-> 0,
               setInputAfterSteps |-> 0, setInputUninit |-> 0, cbCalls |-> 0,
               deleteCalls |-> 0, parseCalls |-> 0,
               nextCalls |-> 0, stepsAfterDelete |-> 0, stepsUnconfigured |-> 0,
               deleteUninit |-> 0, errorValues |-> 0]
    /\ env = [memFailed |-> FALSE, ioFailed |-> FALSE, zeroRead |-> FALSE,
              initFailed |-> FALSE]

\* variant: the handle is never released
DropBase_leak(pm, l) == [pm |-> pm, life |-> l]

\* Drop for YamlBaseParser: yaml_parser_delete on the handle
DropBase(pm, l) ==
    [pm |-> yaml_parser_delete(pm),
     life |-> [l EXCEPT !.deleteCalls = @ + 1,
                        !.deleteUninit = @ + (IF pm.initialized THEN 0 ELSE 1)]]

\* variant: the result of initialize is ignored
ByteInitAborts_ignored(ok) == FALSE

\* the check of initialize's result in YamlByteParser::init
ByteInitAborts(ok) == ~ok

\* the check of initialize's result in YamlIoParser::init
IoInitAborts(ok) == ~ok

CountSetInput(pm, l) ==
    [l EXCEPT !.setInputCalls = @ + 1,
              !.setInputAfterSteps = @ + (IF l.parseCalls > 0 THEN 1 ELSE 0),
              !.setInputUninit = @ + (IF pm.initialized THEN 0 ELSE 1)]

\* parser.base_parser.set_input_string(bytes.as_ptr(), bytes.len())
ByteInitConfigure(pm, l, bytes) ==
    [pm |-> yaml_parser_set_input_string(pm, bytes, Len(bytes)),
     life |-> CountSetInput(pm, l)]

\* variant: the callback is never registered
IoInitConfigure_skipped(pm, l, addr) == [pm |-> pm, life |-> l]

\* ffi::yaml_parser_set_input(.., handle_reader_cb, transmute(&mut *parser))
IoInitConfigure(pm, l, addr) ==
    [pm |-> yaml_parser_set_input(pm, addr),
     life |-> CountSetInput(pm, l)]

\* YamlByteParser::init(bytes)
YamlByteParser_init ==
    /\ pc = "new" /\ kind = "byte"
    /\ \E a \in HeapAddrs, ok \in BOOLEAN :
         LET pm0 == yaml_parser_t_new
             pm1 == yaml_parser_initialize(pm0, ok)
             l1 == [life EXCEPT !.initCalls = @ + 1, !.initOk = ok]
             d == DropBase(pm1, l1)
             c == ByteInitConfigure(pm1, l1, input)
         IN  IF ByteInitAborts(ok)
             THEN \* fail!: the task unwinds and drops the local box
                  /\ pc' = "failed"
                  /\ parser_mem' = d.pm
                  /\ life' = d.life
                  /\ objAddr' = 0
                  /\ owner' = "none"
                  /\ env' = [env EXCEPT !.initFailed = ~ok]
             ELSE /\ pc' = "constructed"
                  /\ parser_mem' = c.pm
                  /\ life' = c.life
                  /\ objAddr' = a
                  /\ owner' = "caller"
                  /\ env' = [env EXCEPT !.initFailed = ~ok]
    /\ UNCHANGED <<input, kind, reader, entryDone, cb, results, engineEvents>>

\* YamlIoParser::init(reader)
YamlIoParser_init ==
    /\ pc = "new" /\ kind = "io"
    /\ \E a \in HeapAddrs, ok \in BOOLEAN :
         LET pm0 == yaml_parser_t_new
             pm1 == yaml_parser_initialize(pm0, ok)
             l1 == [life EXCEPT !.initCalls = @ + 1, !.initOk = ok]
             d == DropBase(pm1, l1)
             c == IoInitConfigure(pm1, l1, a)
         IN  IF IoInitAborts(ok)
             THEN \* fail!: the task unwinds and drops the local box
                  /\ pc' = "failed"
                  /\ parser_mem' = d.pm
                  /\ life' = d.life
                  /\ objAddr' = 0
                  /\ owner' = "none"
                  /\ reader' = <<>>
                  /\ env' = [env EXCEPT !.initFailed = ~ok]
             ELSE /\ pc' = "constructed"
                  /\ parser_mem' = c.pm
                  /\ life' = c.life
                  /\ objAddr' = a
                  /\ owner' = "caller"
                  /\ reader' = input
                  /\ env' = [env EXCEPT !.initFailed = ~ok]
    /\ UNCHANGED <<input, kind, entryDone, cb, results, engineEvents>>

\* YamlParser::parse(~self): the box moves into the YamlEventStream
parse ==
    /\ pc = "constructed"
    /\ pc' = "stream"
    /\ owner' = "stream"
    /\ objAddr' = MoveBox(objAddr)
    /\ UNCHANGED <<input, kind, parser_mem, reader, entryDone, cb, results,
                   engineEvents, life, env>>

\* YamlEventStream::next_event is entered: parse_event calls into the engine
next_event_call ==
    /\ pc = "stream"
    /\ life.nextCalls < MaxCalls
    /\ pc' = "parsing"
    /\ entryDone' = EngineDone(parser_mem)
    /\ life' = [life EXCEPT
                  !.nextCalls = @ + 1,
                  !.parseCalls = @ + 1,
                  !.stepsAfterDelete =
                      @ + (IF parser_mem.deleted THEN 1 ELSE 0),
                  !.stepsUnconfigured =
                      @ + (IF parser_mem.initialized
                              /\ parser_mem.read_handler # "none"
                           THEN 0 ELSE 1)]
    /\ UNCHANGED <<input, kind, parser_mem, reader, objAddr, owner, cb,
                   results, engineEvents, env>>

\* during a step the engine fills its buffer from the whole-buffer input
string_read ==
    /\ pc = "parsing" /\ ~entryDone
    /\ parser_mem.read_handler = "string"
    /\ NeedInput(parser_mem)
    /\ parser_mem' = StringRead(parser_mem)
    /\ UNCHANGED <<input, kind, pc, reader, objAddr, owner, entryDone, cb,
                   results, engineEvents, life, env>>

\* during a step the engine invokes handle_reader_cb(data, buffer, size, size_read)
reader_callback ==
    /\ pc = "parsing" /\ ~entryDone
    /\ parser_mem.read_handler = "callback"
    /\ NeedInput(parser_mem)
    /\ LET data == parser_mem.read_handler_data
           size == ReadCapacity(parser_mem)
           valid == data = objAddr /\ owner # "none"
       IN  \E rem \in (IF valid THEN {Len(reader)} ELSE 0..MaxLen) :
           \E outcome \in ReadOutcomes(SliceLen(size), rem) :
             LET r == handle_reader_cb(outcome)
                 src == IF valid THEN reader ELSE [i \in 1..rem |-> "s"]
                 bytes == Take(src, outcome.n)
                 after == cb_parser_after(
                              [base_parser |-> parser_mem, reader |-> src],
                              outcome.n)
             IN  /\ cb' = [invoked |-> TRUE, atCall |-> life.nextCalls,
                           nth |-> IF cb.atCall = life.nextCalls
                                   THEN cb.nth + 1 ELSE 1,
                           handleUntouched |-> after.base_parser = parser_mem,
                           stepsStarted |-> after.steps,
                           setInputs |-> after.set_input,
                           data |-> data, objAt |-> objAddr,
                           alive |-> owner # "none",
                           capacity |-> size, offered |-> SliceLen(size),
                           written |-> outcome.n, outcome |-> outcome,
                           ret |-> r.ret, wrote |-> r.wrote,
                           size_read |-> r.size_read]
                 /\ reader' = IF valid THEN after.reader ELSE reader
                 /\ parser_mem' =
                       EngineAfterRead(after.base_parser, r.ret, r.size_read,
                                       bytes)
                 /\ life' = [life EXCEPT
                       !.cbCalls = @ + 1,
                       !.parseCalls = @ + after.steps,
                       !.setInputCalls = @ + after.set_input]
                 /\ env' = [env EXCEPT
                       !.ioFailed = @ \/ outcome.tag = "OtherIoError",
                       !.zeroRead = @ \/ (outcome.tag = "Ok" /\ outcome.n = 0
                                            /\ rem > 0)]
    /\ UNCHANGED <<input, kind, pc, objAddr, owner, entryDone, results,
                   engineEvents>>

\* what one next_event call did: the engine's verdict and error code, and
\* the value handed to the caller ("fail": the call did not return)
Result(r) ==
    [stepOk |-> r.stepOk, code |-> r.pm.error, getError |-> r.getError,
     tag |-> r.tag, event |-> r.event, error |-> r.error]

\* the engine finishes the step and next_event returns (or fails)
next_event_return ==
    /\ pc = "parsing"
    /\ entryDone \/ ~NeedInput(parser_mem)
    /\ \E memfail \in (IF entryDone \/ parser_mem.error # YAML_NO_ERROR
                       THEN {FALSE} ELSE BOOLEAN) :
         LET r == next_event(parser_mem, entryDone, memfail)
         IN  /\ results' = Append(results, Result(r))
             /\ engineEvents' = IF r.stepOk THEN Append(engineEvents, r.raw)
                                ELSE engineEvents
             /\ env' = [env EXCEPT !.memFailed = @ \/ memfail]
             /\ IF r.tag = "fail"
                THEN \* fail!: the task unwinds and drops the stream
                     /\ pc' = "failed"
                     /\ parser_mem' = DropBase(r.pm, life).pm
                     /\ life' = DropBase(r.pm, life).life
                     /\ owner' = "none"
                     /\ objAddr' = 0
                ELSE /\ pc' = "stream"
                     /\ parser_mem' = r.pm
                     /\ life' = [life EXCEPT !.errorValues =
                                    @ + (IF r.tag = "Err" THEN 1 ELSE 0)]
                     /\ UNCHANGED <<owner, objAddr>>
    /\ UNCHANGED <<input, kind, reader, entryDone, cb>>

\* the caller lets go of the parser or of the stream: Drop for YamlBaseParser
drop ==
    /\ pc \in {"constructed", "stream"}
    /\ pc' = "dropped"
    /\ parser_mem' = DropBase(parser_mem, life).pm
    /\ life' = DropBase(parser_mem, life).life
    /\ owner' = "none"
    /\ objAddr' = 0
    /\ UNCHANGED <<input, kind, reader, entryDone, cb, results, engineEvents,
                   env>>

Next ==
    \/ YamlByteParser_init
    \/ YamlIoParser_init
    \/ parse
    \/ next_event_call
    \/ string_read
    \/ reader_callback
    \/ next_event_return
    \/ drop

Spec == Init /\ [][Next]_vars


\* ------------------------------------------------------------- helpers
Last(s) == s[Len(s)]
IsOk(r) == r.tag = "Ok"
OkEvents(rs) ==
    LET oks == SelectSeq(rs, IsOk) IN [i \in 1..Len(oks) |-> oks[i].event]
Decoded(evs) == [i \in 1..Len(evs) |-> YamlEvent_load(evs[i])]

\* the YamlErrorType enumeration, in declaration order (engine code 0..7)
YamlErrorType ==
    <<"YamlNoError", "YamlMemoryError", "YamlReaderError", "YamlScannerError",
      "YamlParserError", "YamlComposerError", "YamlWriterError",
      "YamlEmitterError">>

\* ---------------------------------------------------------------- claims

\* C1: every next_event call performs exactly one engine step and returns
\* Ok(decoded event) iff the step succeeded and Err(extracted error) iff it
\* failed; the Ok events are exactly the engine's events, in order.
C1_NextEventMirrorsStep ==
    /\ life.parseCalls = Len(results) + (IF pc = "parsing" THEN 1 ELSE 0)
    /\ \A i \in 1..Len(results) :
         /\ results[i].tag = "Ok" <=> results[i].stepOk
         /\ results[i].tag = "Err" <=> ~results[i].stepOk
    /\ OkEvents(results) = Decoded(engineEvents)

\* what of C1 the code does keep: one engine step per call, Ok iff the step
\* succeeded, and the Ok events are the engine's events in order
C1_OkPartHolds ==
    /\ life.parseCalls = Len(results) + (IF pc = "parsing" THEN 1 ELSE 0)
    /\ \A i \in 1..Len(results) :
         /\ results[i].tag = "Ok" <=> results[i].stepOk
         /\ results[i].tag = "Err" => ~results[i].stepOk
    /\ OkEvents(results) = Decoded(engineEvents)

\* C2: every failed step yields an Error value (never a crash, never an
\* event) whose kind is not NoError and is the ErrorKind of the engine's
\* error code, MemoryError included.
C2_FailedStepYieldsMatchingError ==
    \A i \in 1..Len(results) :
        ~results[i].stepOk =>
            /\ results[i].tag = "Err"
            /\ results[i].error.kind # "YamlNoError"
            /\ results[i].error.kind = YamlErrorType[results[i].code + 1]

\* C2 on the error codes other than MemoryError: the kind matches the code
C2_NonMemoryErrorsMatch ==
    \A i \in 1..Len(results) :
        (~results[i].stepOk /\ results[i].code # YAML_MEMORY_ERROR) =>
            /\ results[i].tag = "Err"
            /\ results[i].error.kind # "YamlNoError"
            /\ results[i].error.kind = YamlErrorType[results[i].code + 1]

\* a scanner failure after a successful stream-start comes back as
\* Err with kind ScannerError (test_parser_error)
C2_ScannerErrorReached ==
    /\ Len(results) = 2
    /\ results[1].tag = "Ok" /\ results[1].event.kind = "YamlStreamStartEvent"
    /\ results[2].tag = "Err" /\ results[2].error.kind = "YamlScannerError"

\* C3: the read callback answers Ok(n) with (1, n written), end of input
\* with (1, 0 written) and any other I/O failure with 0 and no write of
\* size_read; no other combination occurs.
C3_CallbackTranslation ==
    cb.invoked =>
        /\ cb.outcome.tag = "Ok" =>
              cb.ret = 1 /\ cb.wrote /\ cb.size_read = cb.outcome.n
        /\ cb.outcome.tag = "EndOfFile" =>
              cb.ret = 1 /\ cb.wrote /\ cb.size_read = 0
        /\ cb.outcome.tag = "OtherIoError" => cb.ret = 0 /\ ~cb.wrote
        /\ cb.outcome.tag \in {"Ok", "EndOfFile", "OtherIoError"}
        /\ cb.ret \in {0, 1}

C3_Witness ==
    /\ cb.invoked
    /\ cb.outcome.tag = "EndOfFile"
    /\ cb.ret = 1 /\ cb.wrote /\ cb.size_read = 0
    /\ life.cbCalls >= 2


\* ---- the Byte Parser's run on a buffer, as the reference for C4
RECURSIVE FillFromString(_)
FillFromString(pm) ==
    IF NeedInput(pm) THEN FillFromString(StringRead(pm)) ELSE pm

\* one next_event of a Byte Parser (no allocation failure)
ByteNextEvent(pm) ==
    LET done == EngineDone(pm)
    IN  next_event(IF done THEN pm ELSE FillFromString(pm), done, FALSE)

RECURSIVE ByteParserRun(_, _)
ByteParserRun(pm, n) ==
    IF n = 0 THEN <<>>
    ELSE LET r == ByteNextEvent(pm)
         IN  <<Result(r)>> \o ByteParserRun(r.pm, n - 1)

\* the first n next_event results of YamlByteParser::init(bytes).parse()
ByteParserResults(bytes, n) ==
    ByteParserRun(
        yaml_parser_set_input_string(
            yaml_parser_initialize(yaml_parser_t_new, TRUE), bytes, Len(bytes)),
        n)

\* C4 as stated: a Byte Parser and a Streaming Parser whose reader delivers
\* the same bytes in any chunking, then end of input, return the same
\* sequence of next_event results (runs without allocation or I/O faults).
C4_SameResultsAnyChunking ==
    (~env.memFailed /\ ~env.ioFailed) =>
        results = ByteParserResults(input, Len(results))

\* C4 amended: the same, for chunkings in which no read before the end of
\* the data returns Ok(0); the engine takes a 0-byte read for end of input.
C4_SameResultsNonEmptyChunks ==
    (~env.memFailed /\ ~env.ioFailed /\ ~env.zeroRead) =>
        results = ByteParserResults(input, Len(results))

C4_Witness ==
    /\ kind = "io"
    /\ Len(input) = MaxLen
    /\ life.cbCalls = MaxLen + 1
    /\ ~env.memFailed /\ ~env.ioFailed /\ ~env.zeroRead
    /\ Len(results) > 0
    /\ Last(results).tag = "Ok"
    /\ Last(results).event.kind = "YamlStreamEndEvent"
    /\ results = ByteParserResults(input, Len(results))


\* C5: the engine handle of a constructed parser is released exactly once,
\* at destruction (drop or unwinding), after any number of steps, whether or
\* not the last step failed or StreamEnd was reached; no step runs on a
\* released handle.
C5_ReleasedExactlyOnce ==
    /\ life.deleteCalls <= 1
    /\ life.initOk =>
         (pc \in {"dropped", "failed"} <=> life.deleteCalls = 1)
    /\ life.initOk => (parser_mem.deleted <=> pc \in {"dropped", "failed"})
    /\ life.stepsAfterDelete = 0
    /\ pc = "parsing" => ~parser_mem.deleted

C5_Witness ==
    /\ pc = "dropped"
    /\ life.deleteCalls = 1
    /\ Len(results) >= 2
    /\ Last(results).tag = "Err"
    /\ \A i \in 1..Len(results) : results[i].event.kind # "YamlStreamEndEvent"

\* C6: when initialize fails inside init, construction aborts fatally: no
\* parser is returned, no input is configured, no step is ever performed on
\* the handle, and no Error value is produced.
C6_InitFailureAborts ==
    env.initFailed =>
        /\ pc = "failed"
        /\ owner = "none"
        /\ objAddr = 0
        /\ life.setInputCalls = 0
        /\ parser_mem.read_handler = "none"
        /\ life.parseCalls = 0
        /\ life.nextCalls = 0
        /\ results = <<>>
        /\ life.errorValues = 0

C6_Witness ==
    /\ env.initFailed
    /\ pc = "failed"
    /\ life.initCalls = 1
    /\ ~life.initOk

\* a parser value was returned by init
Returned ==
    pc \in {"constructed", "stream", "parsing", "dropped"}
      \/ (pc = "failed" /\ life.nextCalls > 0)

\* C7: for every parser returned by init, initialize was called exactly once
\* and succeeded, the input was configured exactly once, after initialize
\* and before the first step; no step runs unconfigured, no reconfiguration.
C7_InitThenConfigureOnce ==
    /\ Returned =>
         /\ life.initCalls = 1
         /\ life.initOk
         /\ life.setInputCalls = 1
         /\ life.setInputUninit = 0
    /\ life.setInputAfterSteps = 0
    /\ life.stepsUnconfigured = 0
    /\ pc \in {"constructed", "stream", "parsing"} =>
         /\ parser_mem.initialized
         /\ parser_mem.read_handler = (IF kind = "byte" THEN "string"
                                       ELSE "callback")

C7_Witness ==
    /\ kind = "io"
    /\ pc = "stream"
    /\ Len(results) >= 3
    /\ life.initCalls = 1 /\ life.setInputCalls = 1
    /\ parser_mem.read_handler = "callback"

\* C8: at every callback invocation the context registered with the engine
\* is the address of the live parser object; returning the box from init and
\* moving it into the stream do not relocate the object.
C8_ContextIsParserAddress ==
    /\ cb.invoked => (cb.data = cb.objAt /\ cb.alive)
    /\ (kind = "io" /\ owner # "none") =>
          parser_mem.read_handler_data = objAddr

C8_Witness ==
    /\ cb.invoked
    /\ cb.atCall >= 2
    /\ owner = "stream"
    /\ cb.data = objAddr
    /\ cb.outcome.tag = "Ok" /\ cb.outcome.n > 0

\* C9: on every callback invocation with capacity C the reader is offered a
\* buffer of exactly C bytes, at most C bytes are written, and the count
\* reported on success is at most C.
C9_CallbackWithinCapacity ==
    cb.invoked =>
        /\ cb.offered = cb.capacity
        /\ cb.written <= cb.capacity
        /\ cb.ret = 1 => cb.size_read <= cb.capacity

C9_Witness ==
    /\ cb.invoked
    /\ cb.capacity >= 2
    /\ cb.written = cb.capacity
    /\ cb.ret = 1 /\ cb.size_read = cb.capacity

\* C10: in every Error returned from a failed step, context is the engine's
\* context message and problem its problem message (so they differ when the
\* engine's do), and the marks are the engine's problem and context marks.
C10_ContextIsEngineContext ==
    (pc = "stream" /\ Len(results) > 0 /\ Last(results).tag = "Err") =>
        LET e == Last(results).error
        IN  /\ e.problem = CString_into_owned(parser_mem.problem)
            /\ e.context = CString_into_owned(parser_mem.context)
            /\ parser_mem.context # parser_mem.problem
                  => e.context # e.problem
            /\ e.problem_mark = YamlMark_conv(parser_mem.problem_mark)
            /\ e.context_mark = YamlMark_conv(parser_mem.context_mark)

\* what of C10 the code does keep: problem text and both marks
C10_ProblemAndMarksHold ==
    (pc = "stream" /\ Len(results) > 0 /\ Last(results).tag = "Err") =>
        LET e == Last(results).error
        IN  /\ e.problem = CString_into_owned(parser_mem.problem)
            /\ e.problem_mark = YamlMark_conv(parser_mem.problem_mark)
            /\ e.context_mark = YamlMark_conv(parser_mem.context_mark)


\* next_event number i returned StreamEnd or an Err
EndedAt(i) ==
    \/ results[i].tag = "Err"
    \/ results[i].tag = "Ok" /\ results[i].event.kind = "YamlStreamEndEvent"

Ended == \E i \in 1..Len(results) : EndedAt(i)

\* C11: after next_event has returned StreamEnd or an Err, every further
\* call completes and returns Ok or Err: none fails fatally, none touches a
\* released handle or an invalid callback context.
C11_RestepIsSafe ==
    /\ \A i \in 1..Len(results) : \A j \in (i + 1)..Len(results) :
          EndedAt(i) => results[j].tag \in {"Ok", "Err"}
    /\ (Ended /\ pc = "parsing") =>
          /\ entryDone
          /\ ~parser_mem.deleted
          /\ parser_mem.initialized
          /\ ENABLED next_event_return
    /\ life.stepsAfterDelete = 0
    /\ (cb.invoked /\ Ended) => (cb.data = cb.objAt /\ cb.alive)

C11_Witness ==
    /\ Len(results) >= 4
    /\ \E i \in 1..(Len(results) - 2) :
          /\ results[i].tag = "Err"
          /\ \A j \in (i + 1)..Len(results) :
                results[j].tag = "Ok" /\ results[j].event.kind = "YamlNoEvent"
    /\ pc = "stream"


CountKind(evs, k) == Cardinality({i \in 1..Len(evs) : evs[i].kind = k})

\* the event sequence is bounded by one stream-start and one stream-end and
\* has as many End as Start events of each structural kind
WellNested(evs) ==
    /\ Len(evs) >= 2
    /\ evs[1].kind = "YamlStreamStartEvent"
    /\ evs[Len(evs)].kind = "YamlStreamEndEvent"
    /\ CountKind(evs, "YamlStreamStartEvent") = 1
    /\ CountKind(evs, "YamlStreamEndEvent") = 1
    /\ CountKind(evs, "YamlDocumentStartEvent")
          = CountKind(evs, "YamlDocumentEndEvent")
    /\ CountKind(evs, "YamlSequenceStartEvent")
          = CountKind(evs, "YamlSequenceEndEvent")
    /\ CountKind(evs, "YamlMappingStartEvent")
          = CountKind(evs, "YamlMappingEndEvent")

\* call k is the one on which stepping the stream came to its end
FirstEnd(k) == EndedAt(k) /\ \A j \in 1..(k - 1) : ~EndedAt(j)

\* C12 as stated: for all inputs, the events returned by stepping a stream
\* to its end have matching Start/End counts, and stream-start and
\* stream-end occur exactly once, first and last (runs without allocation
\* or read faults).
C12_WellNestedAllInputs ==
    (~env.memFailed /\ ~env.ioFailed /\ ~env.zeroRead) =>
        \A k \in 1..Len(results) :
            FirstEnd(k) => WellNested(OkEvents(Take(results, k)))

\* C12 amended: the same for every input that parses without error, that is
\* when stepping ends with StreamEnd and not with an Err.
C12_WellNestedWhenParsed ==
    /\ \A k \in 1..Len(results) :
          (FirstEnd(k) /\ results[k].tag = "Ok")
              => WellNested(OkEvents(Take(results, k)))
    /\ (pc = "stream" /\ parser_mem.stream_end_produced) =>
          \E k \in 1..Len(results) : FirstEnd(k) /\ results[k].tag = "Ok"
    /\ CountKind(OkEvents(results), "YamlStreamStartEvent") <= 1
    /\ CountKind(OkEvents(results), "YamlStreamEndEvent") <= 1

C12_Witness ==
    /\ Len(input) = MaxLen
    /\ Len(results) > 0
    /\ FirstEnd(Len(results))
    /\ Last(results).tag = "Ok"
    /\ WellNested(OkEvents(results))
    /\ CountKind(OkEvents(results), "YamlSequenceStartEvent") = 1
    /\ CountKind(OkEvents(results), "YamlScalarEvent") = 1


\* C13: yaml_parser_delete is only ever invoked on a handle whose initialize
\* call succeeded, also on the path where initialize fails inside init.
C13_DeleteOnlyInitialized == life.deleteUninit = 0

\* what of C13 the code does keep: a parser that init returned is deleted
\* as an initialized handle
C13_ReturnedParserDeletedInitialized ==
    life.initOk => life.deleteUninit = 0


\* no engine step has failed so far: the input parses without error
NoStepFailed == \A i \in 1..Len(results) : results[i].stepOk

\* the longest error-free run before NoEvent: stream-start, document-start,
\* one event per byte, document-end, stream-end
CallsToNoEvent(bytes) == Len(bytes) + 5

\* C14: for an input that parses without error, repeated next_event calls
\* reach Ok(NoEvent) after finitely many calls (at most CallsToNoEvent);
\* NoEvent comes only after StreamEnd, as Ok and never as Err, and the
\* events before the first NoEvent end with StreamEnd.
C14_NoEventAfterStreamEnd ==
    NoStepFailed =>
        /\ \A i \in 1..Len(results) : results[i].tag = "Ok"
        /\ \A i \in 1..Len(results) :
              results[i].event.kind = "YamlNoEvent" =>
                  /\ i > 1
                  /\ results[i - 1].event.kind
                        \in {"YamlStreamEndEvent", "YamlNoEvent"}
                  /\ \E j \in 1..(i - 1) :
                        results[j].event.kind = "YamlStreamEndEvent"
        /\ Len(results) >= CallsToNoEvent(input) =>
              \E i \in 1..CallsToNoEvent(input) :
                  results[i].event.kind = "YamlNoEvent"

C14_Witness ==
    /\ NoStepFailed
    /\ Len(input) = MaxLen
    /\ Len(results) = CallsToNoEvent(input)
    /\ Last(results).tag = "Ok"
    /\ Last(results).event.kind = "YamlNoEvent"
    /\ results[Len(results) - 1].event.kind = "YamlStreamEndEvent"
    /\ \A i \in 1..(Len(results) - 1) : results[i].event.kind # "YamlNoEvent"


\* the Error that get_error builds from the engine's error state
ErrorOf(pm) == get_error(pm).err

\* C15: get_error runs iff the engine step of the same next_event call
\* failed, and reads the engine's error state as that step left it; after a
\* successful step the error fields are not read and no Error is built.
C15_ErrorOnlyAfterFailedStep ==
    /\ \A i \in 1..Len(results) :
          /\ results[i].getError = (IF results[i].stepOk THEN 0 ELSE 1)
          /\ results[i].stepOk => results[i].error = NoYamlError
          /\ results[i].tag = "Err" =>
                /\ ~results[i].stepOk
                /\ results[i].error.kind = ErrorKindOf(results[i].code)
    /\ life.errorValues
          = Cardinality({i \in 1..Len(results) : results[i].tag = "Err"})
    /\ (pc = "stream" /\ Len(results) > 0 /\ Last(results).tag = "Err") =>
          Last(results).error = ErrorOf(parser_mem)

C15_Witness ==
    /\ pc = "stream"
    /\ Len(results) >= 3
    /\ Last(results).tag = "Err" /\ Last(results).getError = 1
    /\ Last(results).error = ErrorOf(parser_mem)
    /\ \A i \in 1..(Len(results) - 1) :
          results[i].stepOk /\ results[i].getError = 0


\* what reading a text of an Error gives while the engine is in state pm: an
\* owned text is itself; a text left in engine memory is readable only as
\* long as the engine still holds it
ReadText(t, pm) ==
    IF t.owned \/ ~t.some THEN t
    ELSE IF pm.problem = CStr(t.val) \/ pm.context = CStr(t.val) THEN t
    ELSE [some |-> TRUE, val |-> "<released>", owned |-> FALSE]

\* the Error value as its holder reads it now
ReadError(e, pm) ==
    [e EXCEPT !.problem = ReadText(e.problem, pm),
              !.context = ReadText(e.context, pm)]

\* C16: an Error returned by next_event is a snapshot: kind, problem,
\* byte_offset, problem_mark, context and context_mark read the same after
\* every later engine step, later error, or destruction of the parser.
C16_ErrorIsSnapshot ==
    \A i \in 1..Len(results) :
        results[i].tag = "Err" =>
            /\ ReadError(results[i].error, parser_mem) = results[i].error
            /\ results[i].error.kind = ErrorKindOf(results[i].code)

C16_Witness ==
    /\ pc = "dropped"
    /\ parser_mem.deleted
    /\ Len(results) >= 3
    /\ \E i \in 1..(Len(results) - 1) :
          /\ results[i].tag = "Err"
          /\ results[i].error.problem.some
          /\ results[i].error.problem_mark.index > 0
          /\ ReadError(results[i].error, parser_mem) = results[i].error


\* C17: while an engine step is in progress and the engine invokes the read
\* callback (possibly several times within the step), the callback only
\* reads from the embedded reader and writes the buffer and the byte count:
\* it starts no engine step, does not reconfigure the input and leaves the
\* engine handle as it is, so at most one step is in progress at any time.
C17_CallbackTouchesOnlyReader ==
    /\ cb.invoked =>
          /\ cb.handleUntouched
          /\ cb.stepsStarted = 0
          /\ cb.setInputs = 0
    /\ life.parseCalls = Len(results) + (IF pc = "parsing" THEN 1 ELSE 0)
    /\ life.setInputCalls <= 1
    /\ life.parseCalls = life.nextCalls

C17_Witness ==
    /\ pc = "parsing"
    /\ cb.invoked
    /\ cb.atCall = life.nextCalls
    /\ cb.nth >= 2
    /\ cb.handleUntouched
    /\ life.parseCalls = Len(results) + 1


\* C18: when the reader of a Streaming Parser returns an I/O error other
\* than end-of-file during a step, the callback signals failure and the
\* next_event call in progress returns Err with kind ReaderError, never an
\* Ok event and never a silent end of stream; only end-of-file and a
\* successful 0-byte read reach the engine as end of input.
C18_ReadErrorReachesCaller ==
    /\ (cb.invoked /\ cb.outcome.tag = "OtherIoError") =>
          /\ cb.ret = 0
          /\ pc = "parsing" =>
                /\ parser_mem.error = YAML_READER_ERROR
                /\ ~parser_mem.eof
                /\ ~NeedInput(parser_mem)
          /\ Len(results) >= cb.atCall =>
                /\ results[cb.atCall].tag = "Err"
                /\ results[cb.atCall].error.kind = "YamlReaderError"
    /\ (kind = "io" /\ pc \in {"stream", "parsing"} /\ parser_mem.eof) =>
          /\ cb.invoked
          /\ cb.ret = 1 /\ cb.size_read = 0
          /\ \/ cb.outcome.tag = "EndOfFile"
             \/ cb.outcome.tag = "Ok" /\ cb.outcome.n = 0

C18_Witness ==
    /\ kind = "io"
    /\ pc = "stream"
    /\ cb.invoked /\ cb.outcome.tag = "OtherIoError"
    /\ cb.atCall >= 2
    /\ Len(results) = cb.atCall
    /\ Last(results).tag = "Err"
    /\ Last(results).error.kind = "YamlReaderError"

====
